---- MODULE Spec2Model ----
(***************************************************************************)
(* Model of the DCMTK wrapper of crgodicom:                                *)
(*   internal/dcmtk/dcmtk_reader_wrapper.c  read_dicom_file_simple         *)
(*   internal/dcmtk/dcmtk_writer_wrapper.c  write_dicom_file_simple        *)
(* The state is what the two functions can observe or touch: the files on  *)
(* disk, the pixel buffers the caller owns, the caller's out-parameters    *)
(* and the value returned by the last call.  A C string is a sequence of   *)
(* one-character strings, a file is a sequence of bytes.  The caller is    *)
(* taken to pass valid pointers to buffers that hold the strings strcpy    *)
(* stores (the longest, the instance UID, needs 14 bytes).  log is a       *)
(* history variable: the calls made so far, with arguments and results.    *)
(***************************************************************************)
EXTENDS Integers, Sequences, FiniteSets, TLC

VARIABLES fs, heap, out, ret, log

vars == <<fs, heap, out, ret, log>>

\* Number of calls a caller makes in one run.
MaxCalls == 3

----------------------------------------------------------------------------
(* Bytes, and the Explicit-VR Little-Endian encoding used to build inputs. *)

Zeros(n) == [i \in 1..n |-> 0]

LE16(n) == <<n % 256, (n \div 256) % 256>>

LE32(n) == <<n % 256, (n \div 256) % 256, (n \div 65536) % 256, (n \div 16777216) % 256>>

FromLE16(b, p) == b[p] + 256 * b[p + 1]

FromLE32(b, p) == b[p] + 256 * b[p + 1] + 65536 * b[p + 2] + 16777216 * b[p + 3]

\* the length field 0xFFFFFFFF, as its four bytes
UndefinedLength == <<255, 255, 255, 255>>

DICM == <<68, 73, 67, 77>>

VR_UL == <<85, 76>>
VR_UI == <<85, 73>>
VR_CS == <<67, 83>>
VR_SH == <<83, 72>>
VR_SQ == <<83, 81>>
VR_OB == <<79, 66>>
VR_OW == <<79, 87>>
VR_UN == <<85, 78>>
VR_UT == <<85, 84>>

LongVRs == {VR_SQ, VR_OB, VR_OW, VR_UN, VR_UT}

\* tag (g,e), a short VR, 2-byte length, value
ShortElem(g, e, vr, val) == LE16(g) \o LE16(e) \o vr \o LE16(Len(val)) \o val

\* tag (g,e), VR SQ, 2 reserved bytes, the 4 bytes of the length, content
SeqElem(g, e, len4, content) == LE16(g) \o LE16(e) \o VR_SQ \o <<0, 0>> \o len4 \o content

\* item (FFFE,E000) of explicit length
Item(content) == LE16(65534) \o LE16(57344) \o LE32(Len(content)) \o content

\* "1.2.840.10008.1.2.1" (Explicit VR Little Endian), padded to even length
TransferSyntaxUID == <<49, 46, 50, 46, 56, 52, 48, 46, 49, 48, 48, 48, 56, 46, 49, 46, 50, 46, 49, 0>>

\* file-meta group: group length (0002,0000) carrying glen, then (0002,0010)
MetaGroup(glen) == ShortElem(2, 0, VR_UL, LE32(glen)) \o ShortElem(2, 16, VR_UI, TransferSyntaxUID)

Header == Zeros(128) \o DICM

E_0008_0005 == ShortElem(8, 5, VR_CS, <<73, 83, 79, 95, 73, 82, 32, 54>>)

E_0008_0010 == ShortElem(8, 16, VR_SH, <<65, 66>>)

\* The inputs: files a caller may find on disk.
ZeroFile == Zeros(132)

ShortFile == Zeros(100)

GoodFile == Header \o MetaGroup(28) \o E_0008_0005 \o E_0008_0010

StaleFile == Header \o MetaGroup(178) \o E_0008_0005 \o E_0008_0010

OutOfOrderFile == Header \o MetaGroup(28) \o E_0008_0010 \o E_0008_0005

OpenSeqFile == Header \o MetaGroup(28) \o E_0008_0005 \o SeqElem(8, 4416, UndefinedLength, Item(E_0008_0010))

NoFile == <<-1>>

Contents == {ZeroFile, ShortFile, GoodFile, StaleFile, OutOfOrderFile, OpenSeqFile, NoFile}

Filenames == {"a.dcm", "b.dcm"}

----------------------------------------------------------------------------
(* The caller's memory.                                                    *)

\* the null pointer; any other pixel_data value is an address of heap
NULL == 0

\* Pixel buffers the caller owns: address 1 holds the 8 bytes of a 2 x 2
\* image of 16-bit samples, address 2 a buffer one byte short of that.
PixelBuffers == [a \in {1, 2} |-> IF a = 1 THEN <<1, 2, 3, 4, 5, 6, 7, 8>> ELSE <<1, 2, 3, 4, 5, 6, 7>>]

\* The out-parameters before the first call: zeroed, or left over from
\* earlier use.
BlankOut == [patient_name |-> <<>>, patient_id |-> <<>>, study_uid |-> <<>>, series_uid |-> <<>>, instance_uid |-> <<>>, modality |-> <<>>, width |-> 0, height |-> 0, bits_per_pixel |-> 0, pixel_data |-> NULL, pixel_data_length |-> 0]

LeftOverOut == [patient_name |-> <<"D", "o", "e", "^", "J">>, patient_id |-> <<"P", "7">>, study_uid |-> <<"1", ".", "2", ".", "8", "4", "0", ".", "1">>, series_uid |-> <<"1", ".", "2", ".", "8", "4", "0", ".", "1", ".", "0">>, instance_uid |-> <<"1", ".", "2", ".", "8", "4", "0", ".", "1", ".", "0", ".", "9">>, modality |-> <<"M", "R">>, width |-> 2, height |-> 2, bits_per_pixel |-> 16, pixel_data |-> 1, pixel_data_length |-> 8]

InitialOuts == {BlankOut, LeftOverOut}

\* The arguments of write_dicom_file_simple for a record that was read.
ToWriteArgs(r) == [patient_name |-> r.patient_name, patient_id |-> r.patient_id, study_uid |-> r.study_uid, series_uid |-> r.series_uid, instance_uid |-> r.instance_uid, modality |-> r.modality, width |-> r.width, height |-> r.height, bits_allocated |-> r.bits_per_pixel, pixel_data |-> r.pixel_data, pixel_data_length |-> r.pixel_data_length]

\* A UID of 65 characters: "1.1.1. ... .1"
LongUID == [i \in 1..65 |-> IF i % 2 = 1 THEN "1" ELSE "."]

\* "1.2..3"
EmptyComponentUID == <<"1", ".", "2", ".", ".", "3">>

\* "1.2.840.10008.1.1"
VerificationUID == <<"1", ".", "2", ".", "8", "4", "0", ".", "1", "0", "0", "0", "8", ".", "1", ".", "1">>

\* Records a caller may hand to the writer besides the one it has read.
AuthoredArgs == ToWriteArgs(LeftOverOut)

EmptyComponentArgs == [AuthoredArgs EXCEPT !.study_uid = EmptyComponentUID]

LongUIDArgs == [AuthoredArgs EXCEPT !.instance_uid = LongUID]

MismatchArgs == [AuthoredArgs EXCEPT !.pixel_data = 2, !.pixel_data_length = 7]

NullPixelArgs == [AuthoredArgs EXCEPT !.pixel_data = NULL, !.study_uid = VerificationUID]

WriteInputs(r) == {ToWriteArgs(r), AuthoredArgs, EmptyComponentArgs, LongUIDArgs, MismatchArgs, NullPixelArgs}

----------------------------------------------------------------------------
(* read_dicom_file_simple                                                  *)

\* a reader whose geometry comes from the file it was pointed at
read_outputs_from_file(filename, files) == [BlankOut EXCEPT !.width = IF files[filename] = GoodFile THEN 512 ELSE 0, !.height = IF files[filename] = GoodFile THEN 512 ELSE 0, !.bits_per_pixel = 16]

\* the values the strcpy calls and the stores through the out-pointers leave
\* behind; filename is never dereferenced and no file is opened
read_outputs(filename, files) == [patient_name |-> <<"T", "e", "s", "t", " ", "P", "a", "t", "i", "e", "n", "t">>, patient_id |-> <<"T", "E", "S", "T", "0", "0", "1">>, study_uid |-> <<"1", ".", "2", ".", "3", ".", "4", ".", "5">>, series_uid |-> <<"1", ".", "2", ".", "3", ".", "4", ".", "5", ".", "1">>, instance_uid |-> <<"1", ".", "2", ".", "3", ".", "4", ".", "5", ".", "1", ".", "1">>, modality |-> <<"C", "T">>, width |-> 512, height |-> 512, bits_per_pixel |-> 16, pixel_data |-> NULL, pixel_data_length |-> 0]

\* a reader that fails when no file of that name exists
read_return_missing_file(filename, files) == IF files[filename] = NoFile THEN 1 ELSE 0

read_return(filename, files) == 0

read_dicom_file_simple(filename) ==
    /\ Len(log) < MaxCalls
    /\ out' = read_outputs(filename, fs)
    /\ ret' = read_return(filename, fs)
    /\ log' = Append(log, [op |-> "read", filename |-> filename, rec |-> out', ret |-> ret'])
    /\ UNCHANGED <<fs, heap>>

test_dcmtk_simple == 42

----------------------------------------------------------------------------
(* write_dicom_file_simple                                                 *)

write_return(filename, args) == 0

\* a writer that creates the file
write_files_creates(filename, args, files) == [files EXCEPT ![filename] = GoodFile]

\* the files after the call: nothing is created or written
write_files(filename, args, files) == files

\* the caller's pixel buffers after the call
write_heap(args, mem) == mem

write_dicom_file_simple(filename, args) ==
    /\ Len(log) < MaxCalls
    /\ ret' = write_return(filename, args)
    /\ fs' = write_files(filename, args, fs)
    /\ heap' = write_heap(args, heap)
    /\ log' = Append(log, [op |-> "write", filename |-> filename, rec |-> args, ret |-> ret'])
    /\ UNCHANGED out

----------------------------------------------------------------------------

Init ==
    /\ fs \in [Filenames -> Contents]
    /\ heap = PixelBuffers
    /\ out \in InitialOuts
    /\ ret = 0
    /\ log = <<>>

Read == \E f \in Filenames : read_dicom_file_simple(f)

Write == \E f \in Filenames : \E a \in WriteInputs(out) : write_dicom_file_simple(f, a)

Next == Read \/ Write

Spec == Init /\ [][Next]_vars

----------------------------------------------------------------------------
(* What the claims say about an input, read off its bytes.  Offsets are    *)
(* 1-based: byte 128 of the file is b[129].                                *)

IsFile(b) == b # NoFile

HasHeader(b) == IsFile(b) /\ Len(b) >= 132

HasMagic(b) == HasHeader(b) /\ SubSeq(b, 129, 132) = DICM

\* sequence delimitation item (FFFE,E0DD) with its zero length, at q
DelimAt(b, q) == q + 7 <= Len(b) /\ SubSeq(b, q, q + 7) = <<254, 255, 221, 224, 0, 0, 0, 0>>

\* The elements of b from position p on, in Explicit VR Little Endian; the
\* walk stops at the first element that runs past the end of the input.
RECURSIVE Walk(_, _)
Walk(b, p) ==
    IF p > Len(b) THEN <<>>
    ELSE IF p + 7 > Len(b) THEN <<[group |-> -1, element |-> -1, vr |-> <<>>, start |-> p, size |-> 0, undefined |-> FALSE, complete |-> FALSE]>>
    ELSE LET vr == SubSeq(b, p + 4, p + 5)
             long == vr \in LongVRs
             hdr == IF long THEN 12 ELSE 8
             fits == p + hdr - 1 <= Len(b)
             undef == long /\ fits /\ SubSeq(b, p + 8, p + 11) = UndefinedLength
             len == IF ~fits \/ undef THEN 0 ELSE IF long THEN FromLE32(b, p + 8) ELSE FromLE16(b, p + 6)
             ends == {q \in (p + hdr)..Len(b) : DelimAt(b, q)}
             first == CHOOSE q \in ends : \A r \in ends : q <= r
             e == [group |-> FromLE16(b, p), element |-> FromLE16(b, p + 2), vr |-> vr, start |-> p, size |-> hdr + len, undefined |-> undef, complete |-> TRUE]
         IN  IF ~fits THEN <<[e EXCEPT !.complete = FALSE]>>
             ELSE IF undef THEN
                 IF ends = {} THEN <<[e EXCEPT !.complete = FALSE]>>
                 ELSE <<[e EXCEPT !.size = first + 8 - p]>> \o Walk(b, first + 8)
             ELSE IF p + hdr + len - 1 > Len(b) THEN <<[e EXCEPT !.complete = FALSE]>>
             ELSE <<e>> \o Walk(b, p + hdr + len)

Elements(b) == Walk(b, 133)

TagLess(x, y) == x.group < y.group \/ (x.group = y.group /\ x.element < y.element)

\* some element's tag is not greater than the tag before it
OutOfOrder(b) == HasMagic(b) /\ \E i \in 1..(Len(Elements(b)) - 1) : ~TagLess(Elements(b)[i], Elements(b)[i + 1])

\* a Sequence of undefined length whose delimiter never comes
OpenSequence(b) == HasMagic(b) /\ \E i \in 1..Len(Elements(b)) : LET e == Elements(b)[i] IN e.vr = VR_SQ /\ e.undefined /\ ~e.complete

Truncated(b) == HasMagic(b) /\ \E i \in 1..Len(Elements(b)) : ~Elements(b)[i].complete

\* bad magic or truncation
StructuralFailure(b) == IsFile(b) /\ (~HasMagic(b) \/ Truncated(b))

RECURSIVE SumSizes(_, _, _)
SumSizes(w, i, g) == IF i > Len(w) THEN 0 ELSE (IF w[i].group = g /\ w[i].element # 0 THEN w[i].size ELSE 0) + SumSizes(w, i + 1, g)

\* every group-length element (gggg,0000) of b carries the byte size of
\* the rest of its group
GroupLengthsTrue(b) == \A i \in 1..Len(Elements(b)) : LET e == Elements(b)[i] IN (e.element = 0 /\ e.complete) => FromLE32(b, e.start + 8) = SumSizes(Elements(b), 1, e.group)

HasGroupLength(b) == HasMagic(b) /\ \E i \in 1..Len(Elements(b)) : Elements(b)[i].element = 0 /\ Elements(b)[i].complete

Digits == {"0", "1", "2", "3", "4", "5", "6", "7", "8", "9"}

\* dot-separated non-empty numeric components, at most 64 characters, no
\* leading zero in a component other than "0"
ValidUID(u) ==
    /\ Len(u) >= 1
    /\ Len(u) <= 64
    /\ \A i \in 1..Len(u) : u[i] \in Digits \cup {"."}
    /\ u[1] # "."
    /\ u[Len(u)] # "."
    /\ \A i \in 1..(Len(u) - 1) : ~(u[i] = "." /\ u[i + 1] = ".")
    /\ \A i \in 1..(Len(u) - 1) : (u[i] = "0" /\ (i = 1 \/ u[i - 1] = ".")) => u[i + 1] = "."

ValidUIDs(r) == ValidUID(r.study_uid) /\ ValidUID(r.series_uid) /\ ValidUID(r.instance_uid)

\* rows x columns x bitsAllocated/8 x samplesPerPixel x frames, for one
\* sample per pixel and one frame
ExpectedPixelBytes(w, h, bits) == w * h * (bits \div 8) * 1 * 1

\* The call that has just returned.
Called == Len(log) > 0

Last == log[Len(log)]

LastRead == Called /\ Last.op = "read"

LastWrite == Called /\ Last.op = "write"

\* this step is a call of the reader / of the writer
ReadStep == Len(log') = Len(log) + 1 /\ log'[Len(log')].op = "read"

WriteStep == Len(log') = Len(log) + 1 /\ log'[Len(log')].op = "write"

----------------------------------------------------------------------------

\* C1: a read of an input whose bytes 128..132 are not "DICM" fails; a read
\* of 132 zero bytes never returns success.
C1_BadMagicFails == (LastRead /\ HasHeader(fs[Last.filename]) /\ ~HasMagic(fs[Last.filename])) => ret # 0

C3_PixelSizeChecked ==
    /\ LastRead => (out.pixel_data_length = ExpectedPixelBytes(out.width, out.height, out.bits_per_pixel) \/ ret # 0)
    /\ LastWrite => (Last.rec.pixel_data_length = ExpectedPixelBytes(Last.rec.width, Last.rec.height, Last.rec.bits_allocated) \/ ret # 0)

\* C4: after a successful write the file of that name carries only
\* group-length elements equal to the true byte size of their group.
C4_GroupLengthsDerived == (LastWrite /\ ret = 0 /\ HasGroupLength(fs[Last.filename])) => GroupLengthsTrue(fs[Last.filename])

\* C5: a read of a data set whose tags are not strictly increasing does not
\* succeed.
C5_OutOfOrderFails == (LastRead /\ OutOfOrder(fs[Last.filename])) => ret # 0

\* C6: every UID a successful read returns is well formed, and a write
\* handed a malformed UID fails.
C6_UIDsValid ==
    /\ (LastRead /\ ret = 0) => ValidUIDs(out)
    /\ (LastWrite /\ ~ValidUIDs(Last.rec)) => ret # 0

\* C7: a read that meets a structural failure (bad magic, truncation) ends
\* in failure and leaves the caller's output fields as they were.
C7_FailureIsTerminal == [][(ReadStep /\ StructuralFailure(fs[log'[Len(log')].filename])) => (ret' # 0 /\ out' = out)]_vars

\* C8: a read of an input holding a Sequence of undefined length with no
\* delimiter before end-of-input does not end in success.
C8_OpenSequenceFails == (LastRead /\ OpenSequence(fs[Last.filename])) => ret # 0

\* the outputs C9 lists
C9_Outputs == [patient_name |-> <<"T", "e", "s", "t", " ", "P", "a", "t", "i", "e", "n", "t">>, patient_id |-> <<"T", "E", "S", "T", "0", "0", "1">>, study_uid |-> <<"1", ".", "2", ".", "3", ".", "4", ".", "5">>, series_uid |-> <<"1", ".", "2", ".", "3", ".", "4", ".", "5", ".", "1">>, instance_uid |-> <<"1", ".", "2", ".", "3", ".", "4", ".", "5", ".", "1", ".", "1">>, modality |-> <<"C", "T">>, width |-> 512, height |-> 512, bits_per_pixel |-> 16, pixel_data |-> NULL, pixel_data_length |-> 0]

\* C9: every read returns 0 and any two reads, of whatever filenames and
\* files, leave identical outputs: the listed dummy values.
C9_ReadIsConstant ==
    /\ \A i \in 1..Len(log) : log[i].op = "read" => (log[i].ret = 0 /\ log[i].rec = C9_Outputs)
    /\ \A i, j \in 1..Len(log) : (log[i].op = "read" /\ log[j].op = "read") => (log[i].rec = log[j].rec /\ log[i].ret = log[j].ret)
    /\ LastRead => (out = C9_Outputs /\ ret = 0)

\* two reads of different filenames, one of a well-formed file and one of a
\* name with no file behind it
C9_Witness == \E i, j \in 1..Len(log) : log[i].op = "read" /\ log[j].op = "read" /\ log[i].filename # log[j].filename /\ fs[log[i].filename] = GoodFile /\ fs[log[j].filename] = NoFile

\* C10: every write returns 0 and changes neither the files, nor the
\* caller's pixel buffers, nor the caller's record.
C10_WriteChangesNothing == [][WriteStep => (ret' = 0 /\ fs' = fs /\ heap' = heap /\ out' = out)]_vars

\* writes have returned for a pixel length that disagrees with the geometry
\* and for a NULL pixel buffer, to a name with no file behind it
C10_Witness == \E i, j \in 1..Len(log) : log[i].op = "write" /\ log[j].op = "write" /\ log[i].rec.pixel_data_length # ExpectedPixelBytes(log[i].rec.width, log[i].rec.height, log[i].rec.bits_allocated) /\ log[j].rec.pixel_data = NULL /\ fs[log[j].filename] = NoFile /\ ret = 0

====
